---- MODULE Spec2Model ----
(***************************************************************************)
(* Movie_Review backend: the user/review controllers                       *)
(* (src/src/contollers/users.controller.js) behind the Express router      *)
(* (src/unnamed/part_000).                                                 *)
(*                                                                         *)
(* JavaScript values are records with a "type" field; a string is the      *)
(* sequence of its characters, so that trim(), toLowerCase() and parseInt() *)
(* are computed character by character.                                    *)
(***************************************************************************)
EXTENDS Integers, Sequences, FiniteSets, TLC

VARIABLES
  users,        \* prisma.user table, in insertion order
  movies,       \* prisma.movie table (pre-seeded, never written)
  reviews,      \* prisma.review table
  inflight,     \* registerUser requests suspended between findFirst and create
  last,         \* the request handled by the last step and its response
  credentials,  \* history: the bodies of the registrations that returned 201
  overlapped,   \* history: a registerUser ran while another one was suspended
  deleted       \* history: review ids for which deleteReview returned 204

vars == <<users, movies, reviews, inflight, last, credentials, overlapped, deleted>>

\* ---------------------------------------------------------------- bounds
MaxUsers == 2
MaxInflight == 2

\* ------------------------------------------------------- JavaScript values
Undefined == [type |-> "undefined"]
Null == [type |-> "null"]
NaN == [type |-> "NaN"]
Str(s) == [type |-> "string", chars |-> s]

\* JavaScript truthiness of the values used here
Falsy(v) ==
  \/ v.type \in {"undefined", "null", "NaN"}
  \/ v.type = "string" /\ v.chars = <<>>

IsSpace(c) == c = " "

RECURSIVE TrimStart(_)
TrimStart(s) ==
  IF s = <<>> THEN <<>>
  ELSE IF IsSpace(Head(s)) THEN TrimStart(Tail(s)) ELSE s

RECURSIVE TrimEnd(_)
TrimEnd(s) ==
  IF s = <<>> THEN <<>>
  ELSE IF IsSpace(s[Len(s)]) THEN TrimEnd(SubSeq(s, 1, Len(s) - 1)) ELSE s

\* String.prototype.trim
Trim(v) == Str(TrimEnd(TrimStart(v.chars)))

LowerChar(c) ==
  CASE c = "A" -> "a"
    [] c = "B" -> "b"
    [] c = "E" -> "e"
    [] c = "F" -> "f"
    [] OTHER -> c

\* String.prototype.toLowerCase
ToLowerCase(v) == Str([i \in 1..Len(v.chars) |-> LowerChar(v.chars[i])])

DigitValue(c) ==
  CASE c = "0" -> 0 [] c = "1" -> 1 [] c = "2" -> 2 [] c = "3" -> 3
    [] c = "4" -> 4 [] c = "5" -> 5 [] c = "6" -> 6 [] c = "7" -> 7
    [] c = "8" -> 8 [] c = "9" -> 9 [] OTHER -> -1

RECURSIVE DigitPrefix(_, _)
DigitPrefix(s, acc) ==
  IF s = <<>> \/ DigitValue(Head(s)) < 0 THEN acc
  ELSE DigitPrefix(Tail(s), 10 * acc + DigitValue(Head(s)))

\* parseInt: the leading decimal digits of a string, NaN when there are none
\* (parseInt(undefined) is NaN)
ParseInt(v) ==
  IF v.type = "number" THEN v
  ELSE IF v.type # "string" THEN NaN
  ELSE LET s == TrimStart(v.chars) IN
       IF s = <<>> \/ DigitValue(Head(s)) < 0 THEN NaN
       ELSE [type |-> "number", val |-> DigitPrefix(s, 0)]

\* --------------------------------------------------------------- errors
ApiError(statusCode) == [status |-> statusCode, error |-> "ApiError"]

\* an exception that is not an ApiError carries no status code: the request
\* ends as an internal error
Uncaught(name) == [status |-> 500, error |-> name]

\* ------------------------------------------------------ password hashing
\* bcrypt.hash(password, 10): the hash embeds the cost and determines the
\* password
BcryptHash(password) == [type |-> "bcrypt", cost |-> 10, of |-> password.chars]

\* verifyPassword(password, hash) of utils/authUtils.js
VerifyPassword(password, hash) ==
  /\ password.type = "string"
  /\ hash.type = "bcrypt"
  /\ hash.of = password.chars

\* --------------------------------------------------------------- tokens
\* generateAccessToken / generateRefreshToken of utils/authUtils.js: a signed
\* claim {identity, expiry}
GenerateAccessToken(userId) ==
  [type |-> "jwt", payload |-> [type |-> "object", _id |-> userId],
   secret |-> "ACCESS_TOKEN_SECRET", expired |-> FALSE]

GenerateRefreshToken(userId) ==
  [type |-> "jwt", payload |-> [type |-> "object", _id |-> userId],
   secret |-> "REFRESH_TOKEN_SECRET", expired |-> FALSE]

\* jwt.verify(token, secret, callback): err unless the token is a JWT signed
\* with the secret and not expired; otherwise the decoded payload
JwtVerify(token, secret) ==
  IF token.type = "jwt" /\ token.secret = secret /\ ~token.expired
  THEN [err |-> FALSE, user |-> token.payload]
  ELSE [err |-> TRUE, user |-> Undefined]

\* ------------------------------------------------------------ the store
Movies == { [id |-> 1, title |-> "m1"], [id |-> 2, title |-> "m2"] }

\* a user as registerUser persists it (line 66-73); refreshToken is null
\* until the first login
NewUser(id, body) ==
  [id |-> id,
   fullName |-> body.fullName,
   email |-> body.email,
   username |-> ToLowerCase(body.username),
   password |-> BcryptHash(body.password),
   refreshToken |-> Null]

SeedBody ==
  [fullName |-> Str(<<"A">>), email |-> Str(<<"e">>),
   username |-> Str(<<"a">>), password |-> Str(<<"p">>)]

SeedReviews ==
  { [id |-> 1, movieId |-> 1, userId |-> 1, reviewText |-> "good", rating |-> 5],
    [id |-> 2, movieId |-> 2, userId |-> 1, reviewText |-> "bad", rating |-> 1] }

\* the database as the server finds it at start-up: empty, or holding one
\* registered user and that user's reviews
Snapshots ==
  { [users |-> <<>>, reviews |-> {}, credentials |-> {}],
    [users |-> <<NewUser(1, SeedBody)>>, reviews |-> SeedReviews,
     credentials |-> {SeedBody}] }

Idle == [type |-> "idle"]
Slots == 1..MaxInflight

Init ==
  /\ \E snap \in Snapshots :
       /\ users = snap.users
       /\ reviews = snap.reviews
       /\ credentials = snap.credentials
  /\ movies = Movies
  /\ inflight = [s \in Slots |-> Idle]
  /\ last = [op |-> "none"]
  /\ overlapped = FALSE
  /\ deleted = {}

\* ---------------------------------------------------------- registerUser
\* the well-formed request bodies tried: usernames and emails that differ in
\* case only, and a second username
ValidBodies ==
  { SeedBody,
    [SeedBody EXCEPT !.username = Str(<<"A">>), !.email = Str(<<"E">>)],
    [SeedBody EXCEPT !.username = Str(<<"b">>), !.email = Str(<<"E">>),
                     !.password = Str(<<"q">>)] }

\* the request bodies tried: the well-formed ones, and one of them with one
\* or two of its fields missing, empty or whitespace-only
RegisterBodies ==
  ValidBodies
  \cup { [SeedBody EXCEPT !.fullName = x] : x \in { Undefined, Str(<<>>), Str(<<" ">>) } }
  \cup { [SeedBody EXCEPT !.email = Undefined],
         [SeedBody EXCEPT !.username = Str(<<" ">>)],
         [SeedBody EXCEPT !.password = Undefined],
         [SeedBody EXCEPT !.password = Str(<<>>)],
         [SeedBody EXCEPT !.fullName = Str(<<" ">>), !.password = Undefined],
         [SeedBody EXCEPT !.fullName = Undefined, !.password = Str(<<" ">>)] }

\* [fullName, email, username, password].some(field => !field.trim()):
\* the fields are visited in order; trim() of a missing field throws, a
\* field that trims to "" ends the scan with true
RECURSIVE SomeBlank(_)
SomeBlank(fields) ==
  IF fields = <<>> THEN "false"
  ELSE IF Head(fields).type # "string" THEN "TypeError"
  ELSE IF Falsy(Trim(Head(fields))) THEN "true"
  ELSE SomeBlank(Tail(fields))

RegisterFields(body) == <<body.fullName, body.email, body.username, body.password>>

\* the where clause of registerUser's findFirst (line 50-57), applied to one
\* stored user, with the email filter dropped
ExistingUserWhere_NoEmail(u, body) ==
  u.username = ToLowerCase(body.username)

\* the same, with the username compared as given
ExistingUserWhere_NoLower(u, body) ==
  \/ u.username = body.username
  \/ u.email = body.email

\* the where clause of registerUser's findFirst (line 50-57), applied to one
\* stored user
ExistingUserWhere(u, body) ==
  \/ u.username = ToLowerCase(body.username)
  \/ u.email = body.email

ExistingUser(table, body) ==
  { i \in DOMAIN table : ExistingUserWhere(table[i], body) }

NumInflight == Cardinality({ s \in Slots : inflight[s] # Idle })

\* registerUser up to its suspension in bcrypt.hash (line 39-64)
RegisterCheck(body) ==
  /\ overlapped' = (overlapped \/ NumInflight > 0)
  /\ LET blank == SomeBlank(RegisterFields(body)) IN
     IF blank = "TypeError" THEN
       /\ last' = [op |-> "registerUser", req |-> body, res |-> Uncaught("TypeError")]
       /\ UNCHANGED inflight
     ELSE IF blank = "true" THEN
       /\ last' = [op |-> "registerUser", req |-> body, res |-> ApiError(400)]
       /\ UNCHANGED inflight
     ELSE IF ExistingUser(users, body) # {} THEN
       /\ last' = [op |-> "registerUser", req |-> body, res |-> ApiError(409)]
       /\ UNCHANGED inflight
     ELSE
       /\ Len(users) + NumInflight < MaxUsers
       /\ \E slot \in Slots :
            /\ inflight[slot] = Idle
            /\ \A t \in Slots : t < slot => inflight[t] # Idle
            /\ inflight' = [inflight EXCEPT ![slot] = body]
       /\ last' = [op |-> "registerUser.await", req |-> body]
  /\ UNCHANGED <<users, movies, reviews, credentials, deleted>>

\* prisma.user.create: the table carries no uniqueness constraint of its own
PrismaUserCreate(table, user) == Append(table, user)

\* registerUser from prisma.user.create to the 201 response (line 66-87)
RegisterCreate(slot) ==
  /\ inflight[slot] # Idle
  /\ LET body == inflight[slot]
         user == NewUser(Len(users) + 1, body)
     IN /\ users' = PrismaUserCreate(users, user)
        /\ credentials' = credentials \cup {body}
        /\ last' = [op |-> "registerUser", req |-> body,
                    res |-> [status |-> 201, error |-> "none",
                             data |-> [user EXCEPT !.password = Undefined]]]
  /\ inflight' = [inflight EXCEPT ![slot] = Idle]
  /\ UNCHANGED <<movies, reviews, overlapped, deleted>>

\* ------------------------------------------------------------- loginUser
LoginBodies ==
  [email : { Undefined, Str(<<"E">>) },
   username : { Undefined, Str(<<"a">>), Str(<<"A">>) },
   password : { Str(<<"p">>), Str(<<"q">>) }]
  \cup { [email |-> Undefined, username |-> Str(<<>>), password |-> Str(<<"p">>)] }

\* the where clause of loginUser's findFirst (line 100-107), applied to one
\* stored user; Prisma leaves a filter whose value is undefined out of the OR
LoginWhere(u, body) ==
  \/ body.username.type # "undefined" /\ u.username = body.username
  \/ body.email.type # "undefined" /\ u.email = body.email

LoginMatches(table, body) ==
  { i \in DOMAIN table : LoginWhere(table[i], body) }

\* generateAccessAndRefreshTokens, writing the access token to the record
generateAccessAndRefreshTokens_StoreAccess(table, userId) ==
  LET found == { i \in DOMAIN table : table[i].id = userId } IN
  IF found = {} THEN [thrown |-> TRUE, res |-> ApiError(500), users |-> table]
  ELSE LET accessToken == GenerateAccessToken(userId)
           refreshToken == GenerateRefreshToken(userId)
       IN [thrown |-> FALSE,
           accessToken |-> accessToken,
           refreshToken |-> refreshToken,
           users |-> [i \in DOMAIN table |->
                        IF table[i].id = userId
                        THEN [table[i] EXCEPT !.refreshToken = accessToken]
                        ELSE table[i]]]

\* generateAccessAndRefreshTokens (line 10-36): the 404 thrown for a missing
\* user is caught by the function's own catch and rethrown as 500
generateAccessAndRefreshTokens(table, userId) ==
  LET found == { i \in DOMAIN table : table[i].id = userId } IN
  IF found = {} THEN [thrown |-> TRUE, res |-> ApiError(500), users |-> table]
  ELSE LET accessToken == GenerateAccessToken(userId)
           refreshToken == GenerateRefreshToken(userId)
       IN [thrown |-> FALSE,
           accessToken |-> accessToken,
           refreshToken |-> refreshToken,
           users |-> [i \in DOMAIN table |->
                        IF table[i].id = userId
                        THEN [table[i] EXCEPT !.refreshToken = refreshToken]
                        ELSE table[i]]]

\* the password check of loginUser, accepting every password
IsPasswordValid_Always(password, user) == TRUE

\* the password check of loginUser (line 114)
IsPasswordValid(password, user) == VerifyPassword(password, user.password)

\* loginUser (line 90-153) once findFirst has returned the stored user at
\* index i
LoginFound(body, i) ==
  LET user == users[i] IN
  IF ~IsPasswordValid(body.password, user) THEN
    /\ last' = [op |-> "loginUser", req |-> body, res |-> ApiError(401)]
    /\ UNCHANGED users
  ELSE
    LET t == generateAccessAndRefreshTokens(users, user.id) IN
    IF t.thrown THEN
      /\ last' = [op |-> "loginUser", req |-> body, res |-> t.res]
      /\ UNCHANGED users
    ELSE
      /\ users' = t.users
      /\ last' = [op |-> "loginUser", req |-> body,
                  res |-> [status |-> 200, error |-> "none",
                           user |-> [user EXCEPT !.password = Undefined,
                                                 !.refreshToken = Undefined],
                           accessToken |-> t.accessToken,
                           refreshToken |-> t.refreshToken,
                           cookies |-> [accessToken |-> t.accessToken,
                                        refreshToken |-> t.refreshToken]]]

\* loginUser (line 90-153); findFirst has no orderBy, so with several
\* matching users the one returned is the database's choice
Login(body) ==
  /\ IF Falsy(body.username) /\ Falsy(body.email) THEN
       /\ last' = [op |-> "loginUser", req |-> body, res |-> ApiError(400)]
       /\ UNCHANGED users
     ELSE IF LoginMatches(users, body) = {} THEN
       /\ last' = [op |-> "loginUser", req |-> body, res |-> ApiError(404)]
       /\ UNCHANGED users
     ELSE
       \E i \in LoginMatches(users, body) : LoginFound(body, i)
  /\ UNCHANGED <<movies, reviews, inflight, credentials, overlapped, deleted>>

\* ------------------------------------------------------------ the router
\* the middleware stack bound to each path (part_000 line 8-15)
Router ==
  [path \in {"/register", "/login", "/currentuser", "/deletereview",
             "/updatereview", "/getmoviewithreviews", "/createreview", "/movies"} |->
     CASE path = "/register" -> <<"registerUser">>
       [] path = "/login" -> <<"loginUser">>
       [] path = "/currentuser" -> <<"authenticateToken", "getcurrentUser">>
       [] path = "/deletereview" -> <<"authenticateToken", "deleteReview">>
       [] path = "/updatereview" -> <<"authenticateToken", "updateReview">>
       [] path = "/getmoviewithreviews" -> <<"authenticateToken", "getMovieWithReviews">>
       [] path = "/createreview" -> <<"authenticateToken", "createReview">>
       [] path = "/movies" -> <<"getMovieWithDetails">>]

\* req.params as Express fills it for these paths: none of them has a
\* ":name" segment, so every parameter reads as undefined
RouterParams == [id |-> Undefined, reviewId |-> Undefined]

Bearer(token) == [type |-> "string", words |-> <<"Bearer", token>>]

\* req.headers.authorization?.split(' ')[1]
SecondWord(header) ==
  IF header.type # "string" THEN Undefined
  ELSE IF Len(header.words) >= 2 THEN header.words[2]
  ELSE Undefined

\* the access tokens the server has handed out: one per user that logged in
IssuedTokens(table) ==
  { GenerateAccessToken(table[i].id) :
      i \in { j \in DOMAIN table : table[j].refreshToken # Null } }

ForgedToken ==
  [type |-> "jwt", payload |-> [type |-> "object", _id |-> 1],
   secret |-> "forged", expired |-> FALSE]

\* the accessToken cookie of a request: none, empty, a JWT signed with a key
\* that is not the server's, or an issued token, possibly expired by now
Cookies(table) ==
  { Undefined, Str(<<>>), ForgedToken }
  \cup { [t EXCEPT !.expired = e] : t \in IssuedTokens(table), e \in BOOLEAN }

\* the cookies and Authorization headers a client can send in the current
\* state, out of all those of the model
UserIds == 1..MaxUsers
AllCookies ==
  { Undefined, Str(<<>>), ForgedToken }
  \cup { [GenerateAccessToken(n) EXCEPT !.expired = e] : n \in UserIds, e \in BOOLEAN }
AllAuthorizations ==
  {Undefined} \cup { Bearer(GenerateAccessToken(n)) : n \in UserIds }
Authorizations(table) == {Undefined} \cup { Bearer(t) : t \in IssuedTokens(table) }

Request(cookie, authorization, body) ==
  [cookies |-> [accessToken |-> cookie],
   headers |-> [authorization |-> authorization],
   params |-> RouterParams,
   body |-> body,
   user |-> Undefined]

\* authenticateToken, calling next() also when verification fails
authenticateToken_NextOnError(req) ==
  LET token == req.cookies.accessToken IN
  IF Falsy(token) THEN [status |-> 401, nextCalls |-> 0, req |-> req]
  ELSE LET v == JwtVerify(token, "ACCESS_TOKEN_SECRET") IN
       [status |-> 0, nextCalls |-> 1, req |-> [req EXCEPT !.user = v.user]]

\* authenticateToken (line 273-282): the status it sends (0: none), the
\* number of times it calls next(), and the request it passes on
authenticateToken(req) ==
  LET token == req.cookies.accessToken IN
  IF Falsy(token) THEN [status |-> 401, nextCalls |-> 0, req |-> req]
  ELSE LET v == JwtVerify(token, "ACCESS_TOKEN_SECRET") IN
       IF v.err THEN [status |-> 403, nextCalls |-> 0, req |-> req]
       ELSE [status |-> 0, nextCalls |-> 1, req |-> [req EXCEPT !.user = v.user]]

\* the stages of a path's stack that precede its handler
Gate(path, req) ==
  IF Router[path][1] = "authenticateToken" THEN authenticateToken(req)
  ELSE [status |-> 0, nextCalls |-> 1, req |-> req]

\* the response of a request that the gate ended
Rejected(path, req, g) ==
  [op |-> Router[path][Len(Router[path])], path |-> path, req |-> req,
   nextCalls |-> g.nextCalls, handlerRuns |-> 0,
   res |-> [status |-> g.status, error |-> "none"]]

\* the response of a request that reached its handler
Handled(path, req, g, res) ==
  [op |-> Router[path][Len(Router[path])], path |-> path, req |-> req,
   nextCalls |-> g.nextCalls, handlerRuns |-> g.nextCalls,
   user |-> g.req.user, res |-> res]

\* ------------------------------------------------------ review handlers
\* prisma rejects a query whose Int argument is NaN
ValidInt(n) == n.type = "number"

\* include: { reviews: { include: { user: true } } }
ReviewsOf(movieId) ==
  { [id |-> r.id, movieId |-> r.movieId, userId |-> r.userId,
     reviewText |-> r.reviewText, rating |-> r.rating,
     user |-> { users[i] : i \in { j \in DOMAIN users : users[j].id = r.userId } }] :
      r \in { x \in reviews : x.movieId = movieId } }

\* getMovieWithReviews (line 157-175)
getMovieWithReviews(req) ==
  LET id == ParseInt(req.params.id) IN
  IF ~ValidInt(id) THEN [status |-> 500, error |-> "Internal server error"]
  ELSE LET found == { m \in movies : m.id = id.val } IN
       IF found = {} THEN [status |-> 404, error |-> "Movie not found"]
       ELSE LET m == CHOOSE x \in found : TRUE IN
            [status |-> 200, error |-> "none",
             movie |-> [id |-> m.id, title |-> m.title, reviews |-> ReviewsOf(m.id)]]

\* verifyToken is neither imported nor defined in the controller module:
\* evaluating the identifier throws a ReferenceError
verifyToken(token) == [thrown |-> "ReferenceError", decoded |-> Undefined]

NextReviewId ==
  LET ids == { r.id : r \in reviews } \cup deleted \cup {0} IN
  1 + CHOOSE n \in ids : \A m \in ids : m <= n

\* createReview (line 178-205): the response and the review table after it
createReview(req) ==
  LET id == req.params.id
      token == SecondWord(req.headers.authorization)
  IN
  IF Falsy(token) THEN
    [res |-> [status |-> 401, error |-> "No token provided"], reviews |-> reviews]
  ELSE
    LET v == verifyToken(token)
        movieId == ParseInt(id)
    IN
    IF v.thrown # "none" \/ ~ValidInt(movieId) THEN
      [res |-> [status |-> 500, error |-> "Internal server error"], reviews |-> reviews]
    ELSE
      LET review == [id |-> NextReviewId, movieId |-> movieId.val,
                     userId |-> v.decoded._id,
                     reviewText |-> req.body.reviewText,
                     rating |-> req.body.rating]
      IN [res |-> [status |-> 201, error |-> "none", review |-> review],
          reviews |-> reviews \cup {review}]

\* updateReview (line 208-221): prisma.review.update throws when no record
\* has the id
updateReview(req) ==
  LET reviewId == ParseInt(req.params.reviewId) IN
  IF ~ValidInt(reviewId) \/ { r \in reviews : r.id = reviewId.val } = {} THEN
    [res |-> [status |-> 500, error |-> "Failed to update review"], reviews |-> reviews]
  ELSE
    LET old == CHOOSE r \in reviews : r.id = reviewId.val
        updatedReview == [old EXCEPT !.reviewText = req.body.reviewText,
                                     !.rating = req.body.rating]
    IN [res |-> [status |-> 200, error |-> "none", review |-> updatedReview],
        reviews |-> (reviews \ {old}) \cup {updatedReview}]

\* deleteReview (line 224-235): prisma.review.delete throws when no record
\* has the id
deleteReview(req) ==
  LET reviewId == ParseInt(req.params.reviewId) IN
  IF ~ValidInt(reviewId) \/ { r \in reviews : r.id = reviewId.val } = {} THEN
    [res |-> [status |-> 500, error |-> "Failed to delete review"],
     reviews |-> reviews, deleted |-> deleted]
  ELSE
    [res |-> [status |-> 204, error |-> "none"],
     reviews |-> { r \in reviews : r.id # reviewId.val },
     deleted |-> deleted \cup {reviewId.val}]

\* getcurrentUser (line 238-247): findUnique yields null for an unknown id;
\* reading _id of an undefined req.user throws inside the try
getcurrentUser(req) ==
  IF req.user.type # "object" THEN [status |-> 500, error |-> "Internal server error"]
  ELSE LET found == { i \in DOMAIN users : users[i].id = req.user._id } IN
       [status |-> 200, error |-> "none",
        user |-> IF found = {} THEN Null ELSE users[CHOOSE i \in found : TRUE]]

\* getMovieWithDetails (line 250-257)
getMovieWithDetails(req) == [status |-> 200, error |-> "none", movies |-> movies]

\* ------------------------------------------------------ requests by route
NoBody == [type |-> "undefined"]
DeleteBodies == { [reviewId |-> 1] }
UpdateBodies == { [reviewId |-> 1, reviewText |-> "edited", rating |-> 2] }
MovieBodies == { [id |-> 1] }
CreateBodies == { [id |-> 1, reviewText |-> "new", rating |-> 4] }

\* GET /currentuser
CurrentUser(cookie) ==
  /\ cookie \in Cookies(users)
  /\ LET req == Request(cookie, Undefined, NoBody)
         g == Gate("/currentuser", req)
     IN IF g.nextCalls = 0 THEN last' = Rejected("/currentuser", req, g)
        ELSE last' = Handled("/currentuser", req, g, getcurrentUser(g.req))
  /\ UNCHANGED <<users, movies, reviews, inflight, credentials, overlapped, deleted>>

\* POST /deletereview
DeleteReview(cookie, body) ==
  /\ cookie \in Cookies(users)
  /\ LET req == Request(cookie, Undefined, body)
         g == Gate("/deletereview", req)
     IN IF g.nextCalls = 0 THEN
          /\ last' = Rejected("/deletereview", req, g)
          /\ UNCHANGED <<reviews, deleted>>
        ELSE LET h == deleteReview(g.req) IN
          /\ last' = Handled("/deletereview", req, g, h.res)
          /\ reviews' = h.reviews
          /\ deleted' = h.deleted
  /\ UNCHANGED <<users, movies, inflight, credentials, overlapped>>

\* POST /updatereview
UpdateReview(cookie, body) ==
  /\ cookie \in Cookies(users)
  /\ LET req == Request(cookie, Undefined, body)
         g == Gate("/updatereview", req)
     IN IF g.nextCalls = 0 THEN
          /\ last' = Rejected("/updatereview", req, g)
          /\ UNCHANGED reviews
        ELSE LET h == updateReview(g.req) IN
          /\ last' = Handled("/updatereview", req, g, h.res)
          /\ reviews' = h.reviews
  /\ UNCHANGED <<users, movies, inflight, credentials, overlapped, deleted>>

\* POST /getmoviewithreviews
GetMovieWithReviews(cookie, body) ==
  /\ cookie \in Cookies(users)
  /\ LET req == Request(cookie, Undefined, body)
         g == Gate("/getmoviewithreviews", req)
     IN IF g.nextCalls = 0 THEN last' = Rejected("/getmoviewithreviews", req, g)
        ELSE last' = Handled("/getmoviewithreviews", req, g, getMovieWithReviews(g.req))
  /\ UNCHANGED <<users, movies, reviews, inflight, credentials, overlapped, deleted>>

\* POST /createreview
CreateReview(cookie, authorization, body) ==
  /\ cookie \in Cookies(users)
  /\ authorization \in Authorizations(users)
  /\ LET req == Request(cookie, authorization, body)
         g == Gate("/createreview", req)
     IN IF g.nextCalls = 0 THEN
          /\ last' = Rejected("/createreview", req, g)
          /\ UNCHANGED reviews
        ELSE LET h == createReview(g.req) IN
          /\ last' = Handled("/createreview", req, g, h.res)
          /\ reviews' = h.reviews
  /\ UNCHANGED <<users, movies, inflight, credentials, overlapped, deleted>>

\* GET /movies
GetMovies ==
  /\ LET req == Request(Undefined, Undefined, NoBody)
         g == Gate("/movies", req)
     IN last' = Handled("/movies", req, g, getMovieWithDetails(g.req))
  /\ UNCHANGED <<users, movies, reviews, inflight, credentials, overlapped, deleted>>

Next ==
  \/ \E body \in RegisterBodies : RegisterCheck(body)
  \/ \E slot \in Slots : RegisterCreate(slot)
  \/ \E body \in LoginBodies : Login(body)
  \/ \E cookie \in AllCookies : CurrentUser(cookie)
  \/ \E cookie \in AllCookies, body \in DeleteBodies : DeleteReview(cookie, body)
  \/ \E cookie \in AllCookies, body \in UpdateBodies : UpdateReview(cookie, body)
  \/ \E cookie \in AllCookies, body \in MovieBodies : GetMovieWithReviews(cookie, body)
  \/ \E cookie \in AllCookies, authorization \in AllAuthorizations, body \in CreateBodies :
       CreateReview(cookie, authorization, body)
  \/ GetMovies

Spec == Init /\ [][Next]_vars

\* ------------------------------------------------------------ properties
\* all four fields present and not blank
WellFormed(body) ==
  \A k \in 1..4 :
    /\ RegisterFields(body)[k].type = "string"
    /\ \E n \in 1..Len(RegisterFields(body)[k].chars) :
         RegisterFields(body)[k].chars[n] # " "

SameIgnoringCase(v, w) ==
  /\ v.type = "string"
  /\ w.type = "string"
  /\ ToLowerCase(v) = ToLowerCase(w)

\* the step just taken is registerUser's validation and pre-check of the
\* request last.req (the 201 response belongs to the later create step)
PreChecked(l) ==
  \/ l.op = "registerUser.await"
  \/ l.op = "registerUser" /\ l.res.status # 201

\* C1 as stated: a well-formed registerUser request whose username or email
\* equals, in any upper/lower-case variant, that of a stored user is rejected
\* with 409 and creates no user
C1_ConflictAnyCase ==
  [][( /\ PreChecked(last')
       /\ WellFormed(last'.req)
       /\ \E i \in DOMAIN users :
            \/ SameIgnoringCase(users[i].username, last'.req.username)
            \/ SameIgnoringCase(users[i].email, last'.req.email) )
     => ( /\ last'.op = "registerUser"
          /\ last'.res = ApiError(409)
          /\ users' = users
          /\ inflight' = inflight )]_vars

\* C1 amended: a well-formed registerUser request whose username equals, in
\* any upper/lower-case variant, the username of a stored user, or whose email
\* equals exactly the email of a stored user, is rejected with 409 and
\* creates no user
C1_ConflictExactEmail ==
  [][( /\ PreChecked(last')
       /\ WellFormed(last'.req)
       /\ \E i \in DOMAIN users :
            \/ SameIgnoringCase(users[i].username, last'.req.username)
            \/ users[i].email = last'.req.email )
     => ( /\ last'.op = "registerUser"
          /\ last'.res = ApiError(409)
          /\ users' = users
          /\ inflight' = inflight )]_vars

\* a registration was refused with 409 for a username that differs from the
\* stored one only in case, its email being new
C1_Witness ==
  /\ last.op = "registerUser"
  /\ last.res.status = 409
  /\ \E i \in DOMAIN users :
       /\ users[i].username # last.req.username
       /\ SameIgnoringCase(users[i].username, last.req.username)
  /\ \A i \in DOMAIN users : users[i].email # last.req.email

NotSupplied(v) == v.type # "string" \/ v.chars = <<>>

\* the login body repeats credentials given at a registration: the same
\* password, and the same username and/or the same email
SameCredentials(body, c) ==
  /\ body.password = c.password
  /\ body.username \in {Undefined, c.username}
  /\ body.email \in {Undefined, c.email}
  /\ ~(body.username = Undefined /\ body.email = Undefined)

\* C2: a loginUser request that supplies the credentials of a registration
\* that returned 201 succeeds with 200 and returns both tokens
C2_LoginAfterRegister ==
  ( /\ last.op = "loginUser"
    /\ \E c \in credentials : SameCredentials(last.req, c) )
  => ( /\ last.res.status = 200
       /\ last.res.accessToken.type = "jwt"
       /\ last.res.refreshToken.type = "jwt" )

\* the cookie carries no token
Absent(cookie) == cookie = Undefined \/ cookie = Str(<<>>)

\* the cookie is an access token the server issued and that has not expired
Verified(cookie) == cookie \in IssuedTokens(users)

GatedPaths == { path \in DOMAIN Router : Router[path][1] = "authenticateToken" }

IsRouted(l) == l.op \notin {"none", "registerUser", "registerUser.await", "loginUser"}

\* C3: on a gated route, a request without accessToken cookie gets 401 and a
\* request whose cookie does not verify gets 403, the handler not being
\* invoked in either case; a request whose cookie verifies reaches the handler
\* exactly once with the decoded identity attached; so no handler of a gated
\* route runs without a verified token
C3_AuthGate ==
  ( /\ IsRouted(last)
    /\ last.path \in GatedPaths )
  => LET cookie == last.req.cookies.accessToken IN
     /\ Absent(cookie) =>
          last.res.status = 401 /\ last.nextCalls = 0 /\ last.handlerRuns = 0
     /\ (~Absent(cookie) /\ ~Verified(cookie)) =>
          last.res.status = 403 /\ last.nextCalls = 0 /\ last.handlerRuns = 0
     /\ Verified(cookie) =>
          /\ last.nextCalls = 1
          /\ last.handlerRuns = 1
          /\ last.user._id = cookie.payload._id
     /\ last.handlerRuns > 0 => Verified(cookie)

\* a gated handler ran for a request with a verified token
C3_Witness ==
  /\ IsRouted(last)
  /\ last.path = "/currentuser"
  /\ last.handlerRuns = 1
  /\ Verified(last.req.cookies.accessToken)
  /\ last.res.status = 200

\* the stored users that the login body names
Named(body) ==
  { i \in DOMAIN users :
      \/ ~NotSupplied(body.username) /\ users[i].username = body.username
      \/ ~NotSupplied(body.email) /\ users[i].email = body.email }

PasswordOf(i, body) == users[i].password = BcryptHash(body.password)

\* C4: loginUser answers 400 if neither username nor email is supplied;
\* otherwise 404 if no stored user matches; otherwise 401 if the password
\* does not verify against the matched user's hash; otherwise 200 with user,
\* accessToken and refreshToken
C4_LoginOrder ==
  last.op = "loginUser" =>
    LET body == last.req IN
    IF NotSupplied(body.username) /\ NotSupplied(body.email) THEN
      last.res = ApiError(400)
    ELSE IF Named(body) = {} THEN
      last.res = ApiError(404)
    ELSE IF \A i \in Named(body) : ~PasswordOf(i, body) THEN
      last.res = ApiError(401)
    ELSE
      \/ /\ last.res = ApiError(401)
         /\ \E i \in Named(body) : ~PasswordOf(i, body)
      \/ /\ last.res.status = 200
         /\ \E i \in Named(body) :
              /\ PasswordOf(i, body)
              /\ last.res.user.id = users[i].id
         /\ last.res.accessToken.type = "jwt"
         /\ last.res.refreshToken.type = "jwt"

\* a login named a stored user and was refused for its password
C4_Witness ==
  /\ last.op = "loginUser"
  /\ last.res.status = 401
  /\ Named(last.req) # {}

\* C5: a loginUser that returns 200 stores the returned refresh token on the
\* logged-in user's record and changes no other record; a loginUser that is
\* rejected changes no record
C5_RefreshTokenStored ==
  [][last'.op = "loginUser" =>
       IF last'.res.status = 200 THEN
         /\ DOMAIN users' = DOMAIN users
         /\ \E i \in DOMAIN users :
              /\ users[i].id = last'.res.user.id
              /\ users'[i] = [users[i] EXCEPT !.refreshToken = last'.res.refreshToken]
              /\ last'.res.refreshToken.secret = "REFRESH_TOKEN_SECRET"
              /\ \A j \in DOMAIN users : j # i => users'[j] = users[j]
       ELSE users' = users]_vars

\* a login succeeded while another user was stored, and the record holds the
\* returned refresh token
C5_Witness ==
  /\ last.op = "loginUser"
  /\ last.res.status = 200
  /\ Len(users) >= 2
  /\ \E i \in DOMAIN users :
       /\ users[i].id = last.res.user.id
       /\ users[i].refreshToken = last.res.refreshToken
  /\ \E j \in DOMAIN users : users[j].refreshToken = Null

\* C6: a registerUser request one of whose four fields is missing, empty or
\* whitespace-only is rejected with 400 and stores no user
C6_BlankRejected ==
  ( /\ PreChecked(last)
    /\ ~WellFormed(last.req) )
  => ( /\ last.op = "registerUser"
       /\ last.res = ApiError(400)
       /\ \A i \in DOMAIN inflight : inflight[i] # last.req )

\* the ids of the reviews listed in a getMovieWithReviews response
Listed(res) == { r.id : r \in res.movie.reviews }

\* C7: through the exposed routes, deleteReview's 204 takes the review out of
\* every later getMovieWithReviews list of its movie, and a review that no
\* deleteReview has removed is in the list returned for its movie
C7_DeletedNotListed ==
  /\ ( /\ last.op = "getMovieWithReviews"
       /\ last.handlerRuns = 1
       /\ \E m \in movies : m.id = last.req.body.id )
     => ( /\ last.res.status = 200
          /\ Listed(last.res) \cap deleted = {}
          /\ \A r \in reviews :
               r.movieId = last.req.body.id => r.id \in Listed(last.res) )
  /\ ( /\ last.op = "deleteReview"
       /\ last.handlerRuns = 1
       /\ last.res.status = 204 )
     => ( /\ last.req.body.reviewId \in deleted
          /\ \A r \in reviews : r.id # last.req.body.reviewId )

\* C8: a POST /createreview that passed the gate answers 201 with the review
\* it inserted, whose userId is the identity of the verified token and whose
\* movieId, reviewText and rating are those of the body
C8_ReviewCreated ==
  ( /\ last.op = "createReview"
    /\ last.handlerRuns = 1 )
  => ( /\ last.res.status = 201
       /\ last.res.review \in reviews
       /\ last.res.review.userId = last.user._id
       /\ last.res.review.movieId = last.req.body.id
       /\ last.res.review.reviewText = last.req.body.reviewText
       /\ last.res.review.rating = last.req.body.rating )

\* no two stored users share a username or an email
UniqueUsers ==
  \A i, j \in DOMAIN users :
    i # j => ( /\ users[i].username # users[j].username
               /\ users[i].email # users[j].email )

\* C9: as long as no registerUser has run while another one was suspended
\* between its pre-check and its create, no two stored users share a username
\* or an email (with such an overlap they can: C9_Race)
C9_SequentialUnique == ~overlapped => UniqueUsers

\* two registrations that overlapped have both been stored with the same
\* username or the same email
C9_Race ==
  /\ overlapped
  /\ ~UniqueUsers
  /\ last.op = "registerUser"
  /\ last.res.status = 201

\* the identities a verified token can carry
Identities == { [type |-> "object", _id |-> n] : n \in 1..(MaxUsers + 1) }

\* C10: updateReview and deleteReview treat a request alike whoever sends it,
\* and a request that passed the gate and names a stored review changes,
\* respectively removes, that review
C10_NoOwnershipCheck ==
  /\ \A body \in UpdateBodies \cup DeleteBodies, a, b \in Identities :
       LET req == Request(Undefined, Undefined, body) IN
       /\ updateReview([req EXCEPT !.user = a]) = updateReview([req EXCEPT !.user = b])
       /\ deleteReview([req EXCEPT !.user = a]) = deleteReview([req EXCEPT !.user = b])
  /\ ( /\ last.op = "updateReview"
       /\ last.handlerRuns = 1 )
     => \A r \in reviews :
          r.id = last.req.body.reviewId =>
            /\ last.res.status = 200
            /\ r.reviewText = last.req.body.reviewText
            /\ r.rating = last.req.body.rating
  /\ ( /\ last.op = "deleteReview"
       /\ last.handlerRuns = 1 )
     => \A r \in reviews : r.id # last.req.body.reviewId

====
